---- MODULE Spec2Model ----
(***************************************************************************)
(* cloudtask/settings.py: the TaskSettings accessor, its process-wide      *)
(* instance task_settings and the setting_changed receiver.                *)
(*                                                                         *)
(* Python values are tagged records [t, v]; a mapping is a function whose  *)
(* domain is a set of setting names; an instance attribute that may be     *)
(* deleted is a record [set, val].                                         *)
(***************************************************************************)
EXTENDS Integers, Sequences, FiniteSets, TLC

VARIABLES
    self,        \* the TaskSettings instance: defaults, import_strings,
                 \* _user_settings, _cached_attrs, attrs (memoized settings)
    registered,  \* TRUE iff the instance is the module's task_settings
    settings,    \* django.conf.settings: top-level key -> [set, val]
    lastOp,      \* the last operation performed and what it returned
    reader,      \* a thread in the middle of an attribute read
    reloader,    \* a thread in the middle of TaskSettings.reload
    call         \* a call of perform_import: its arguments and outcome

\* the variables only the interleaved and the perform_import
\* specifications change
aux == <<reader, reloader, call>>

vars == <<self, registered, settings, lastOp, reader, reloader, call>>

----------------------------------------------------------------------------
(* Python values *)

None == [t |-> "none", v |-> "None"]
PyStr(s) == [t |-> "str", v |-> s]
PyInt(n) == [t |-> "int", v |-> n]
PyBool(b) == [t |-> "bool", v |-> b]
PyList(seq) == [t |-> "list", v |-> seq]
PyTuple(seq) == [t |-> "tuple", v |-> seq]
\* the object a dotted path names
PyClass(path) == [t |-> "class", v |-> path]

EmptyMap == [n \in {} |-> None]

\* outcomes of a call: a returned value or a raised exception with the
\* arguments formatted into its message
Return(val) == [exc |-> "none", val |-> val, msg |-> <<>>]
Raise(exc, msg) == [exc |-> exc, val |-> None, msg |-> msg]

----------------------------------------------------------------------------
(* Module-level data *)

DEFAULTS ==
    ("DEFAULT_CLIENT_CLASS" :> PyStr("cloudtask.client.BaseTaskClient")) @@
    ("DEFAULT_AUTHENTICATION_CLASS " :> PyStr("cloudtask.client.BaseAuthenticationClass")) @@
    ("DEFAULT_QUOTE_ID" :> None) @@
    ("DEFAULT_QUOTE_LOCATION" :> None) @@
    ("DEFAULT_TASK_HANDLER_ROOT_URL" :> PyStr("")) @@
    ("DEFAULT_TASK_RATE_LIMIT" :> PyInt(10)) @@
    ("DEFAULT_TASK_RATE_INTERVAL" :> PyInt(1)) @@
    ("DEFAULT_TASK_EXECUTE_LOCALLY" :> PyBool(FALSE))

IMPORT_STRINGS == {"DEFAULT_RENDERER_CLASSES", "DEFAULT_PARSER_CLASSES"}

\* the namespace the module documents for the library's settings
DocumentedNamespace == "CLOUD_TASK"
\* the top-level key the user_settings property reads
UserSettingsKey == "REST_FRAMEWORK"
\* the top-level key the setting_changed receiver reacts to
ReloadSettingKey == "CLOUD_TASK"

----------------------------------------------------------------------------
(* The environment: importable dotted paths, host configurations *)

BadPath == "missing.module.Klass"
OtherPath == "myapp.tasks.Client"

Importable == {"cloudtask.client.BaseTaskClient",
               "cloudtask.client.BaseAuthenticationClass",
               OtherPath}

Absent == [set |-> FALSE, val |-> EmptyMap]
Present(m) == [set |-> TRUE, val |-> m]

\* the values a top-level key of the host configuration may take
Blocks == {
    Absent,
    Present(("DEFAULT_TASK_RATE_LIMIT" :> PyInt(50)) @@
            ("DEFAULT_RENDERER_CLASSES" :> PyList(<<PyStr(OtherPath)>>))),
    Present("DEFAULT_CLIENT_CLASS" :> PyStr(OtherPath)),
    Present(("DEFAULT_CLIENT_CLASS" :>
                PyList(<<PyStr("cloudtask.client.BaseTaskClient"), PyStr(BadPath)>>)) @@
            ("DEFAULT_TASK_RATE_LIMIT" :> PyInt(20))),
    Present("DEFAULT_CLIENT_CLASS" :> PyStr(BadPath)) }

TopKeys == {"CLOUD_TASK", "REST_FRAMEWORK"}
\* the names a setting_changed signal may carry
SignalNames == TopKeys \cup {"DEBUG"}

\* the attribute names read in the model
ReadNames == {"DEFAULT_CLIENT_CLASS", "DEFAULT_TASK_RATE_LIMIT", "DEFAULT_QUOTE_ID",
              "DEFAULT_RENDERER_CLASSES", "DEFAULT_PARSER_CLASSES",
              "DEFAULT_AUTHENTICATION_CLASS"}

\* the constructor calls of the model: the module's own (registered with
\* the signal) and one with import strings that are keys of the defaults
Constructions == {
    [defaults |-> DEFAULTS, import_strings |-> IMPORT_STRINGS, module |-> TRUE],
    [defaults |-> EmptyMap, import_strings |-> {"DEFAULT_CLIENT_CLASS", "DEFAULT_QUOTE_ID"},
     module |-> FALSE] }

----------------------------------------------------------------------------
(* Import resolution *)

\* import_from_string with the failure swallowed: the raw string comes back
import_from_string_silent(val, setting_name) ==
    IF val.v \in Importable
    THEN Return(PyClass(val.v))
    ELSE Return(val)

\* django.utils.module_loading.import_string wrapped by import_from_string
import_from_string(val, setting_name) ==
    IF val.v \in Importable
    THEN Return(PyClass(val.v))
    ELSE Raise("ImportError", <<val.v, setting_name>>)

\* index of the first item of a sequence that fails to import, 0 if none
FirstFailure(items, setting_name) ==
    LET bad == {i \in 1..Len(items) : import_from_string(items[i], setting_name).exc # "none"}
    IN IF bad = {} THEN 0 ELSE CHOOSE i \in bad : \A j \in bad : i <= j

\* perform_import testing for list only: a tuple falls through unchanged
perform_import_list_only(val, setting_name) ==
    IF val.t = "none" THEN [ret |-> Return(None), imports |-> <<>>]
    ELSE IF val.t = "str"
    THEN [ret |-> import_from_string(val, setting_name), imports |-> <<val.v>>]
    ELSE IF val.t = "list"
    THEN LET f == FirstFailure(val.v, setting_name)
         IN IF f = 0
            THEN [ret |-> Return(PyList([i \in 1..Len(val.v) |->
                                import_from_string(val.v[i], setting_name).val])),
                  imports |-> [i \in 1..Len(val.v) |-> val.v[i].v]]
            ELSE [ret |-> import_from_string(val.v[f], setting_name),
                  imports |-> [i \in 1..f |-> val.v[i].v]]
    ELSE [ret |-> Return(val), imports |-> <<>>]

\* [ret: the outcome, imports: the paths handed to import_from_string]
perform_import(val, setting_name) ==
    IF val.t = "none" THEN [ret |-> Return(None), imports |-> <<>>]
    ELSE IF val.t = "str"
    THEN [ret |-> import_from_string(val, setting_name), imports |-> <<val.v>>]
    ELSE IF val.t \in {"list", "tuple"}
    THEN LET f == FirstFailure(val.v, setting_name)
         IN IF f = 0
            THEN [ret |-> Return(PyList([i \in 1..Len(val.v) |->
                                import_from_string(val.v[i], setting_name).val])),
                  imports |-> [i \in 1..Len(val.v) |-> val.v[i].v]]
            ELSE [ret |-> import_from_string(val.v[f], setting_name),
                  imports |-> [i \in 1..f |-> val.v[i].v]]
    ELSE [ret |-> Return(val), imports |-> <<>>]

----------------------------------------------------------------------------
(* TaskSettings *)

\* __init__: "x or Y" takes Y when x is None or empty
TaskSettings(defaults, import_strings) ==
    [_user_settings |-> Present(EmptyMap),
     defaults |-> IF DOMAIN defaults = {} THEN DEFAULTS ELSE defaults,
     import_strings |-> IF import_strings = {} THEN IMPORT_STRINGS ELSE import_strings,
     _cached_attrs |-> {},
     attrs |-> EmptyMap]

\* user_settings without the hasattr test: the host is read on every call
user_settings_refetch(s, conf) ==
    Present(IF conf[UserSettingsKey].set THEN conf[UserSettingsKey].val ELSE EmptyMap)

\* the user_settings property: the value of _user_settings after the call
user_settings(s, conf) ==
    IF ~s._user_settings.set
    THEN Present(IF conf[UserSettingsKey].set THEN conf[UserSettingsKey].val ELSE EmptyMap)
    ELSE s._user_settings

\* the instance at line 92, where hasattr has answered False
Absent_user_settings(s) == [s EXCEPT !._user_settings = Absent]

\* the head check, also letting through any name the overrides hold
is_invalid_unless_overridden(attr, s) ==
    attr \notin DOMAIN s.defaults /\ attr \notin DOMAIN s._user_settings.val

\* the check at the head of __getattr__
is_invalid(attr, s) == attr \notin DOMAIN s.defaults

\* the value __getattr__ resolves before import coercion
lookup(attr, s, us) ==
    IF attr \in DOMAIN us.val THEN us.val[attr] ELSE s.defaults[attr]

\* the end of __getattr__ without the _cached_attrs.add
cache_result_no_add(attr, val, s) ==
    [s EXCEPT !.attrs = (attr :> val) @@ @]

\* the end of __getattr__ without the setattr
cache_result_no_setattr(attr, val, s) ==
    [s EXCEPT !._cached_attrs = @ \cup {attr}]

\* the state __getattr__ leaves when it returns val
cache_result(attr, val, s) ==
    [s EXCEPT !._cached_attrs = @ \cup {attr},
              !.attrs = (attr :> val) @@ @]

\* __getattr__ reading user_settings before the check of the name
getattr_fetch_first(attr, s, conf) ==
    LET us == user_settings(s, conf)
        s1 == [s EXCEPT !._user_settings = us]
    IN IF is_invalid(attr, s)
       THEN [self |-> s1, ret |-> Raise("AttributeError", <<attr>>),
             fetched |-> ~s._user_settings.set, imports |-> <<>>]
       ELSE LET val == lookup(attr, s, us)
                imp == IF attr \in s.import_strings
                       THEN perform_import(val, attr)
                       ELSE [ret |-> Return(val), imports |-> <<>>]
            IN [self |-> IF imp.ret.exc = "none"
                         THEN cache_result(attr, imp.ret.val, s1)
                         ELSE s1,
                ret |-> imp.ret,
                fetched |-> ~s._user_settings.set,
                imports |-> imp.imports]

\* __getattr__: [self: the instance afterwards, ret, fetched: the host
\* configuration was read, imports: the paths imported]
__getattr__(attr, s, conf) ==
    IF is_invalid(attr, s)
    THEN [self |-> s, ret |-> Raise("AttributeError", <<attr>>),
          fetched |-> FALSE, imports |-> <<>>]
    ELSE LET us == user_settings(s, conf)
             s1 == [s EXCEPT !._user_settings = us]
             val == lookup(attr, s, us)
             imp == IF attr \in s.import_strings
                    THEN perform_import(val, attr)
                    ELSE [ret |-> Return(val), imports |-> <<>>]
         IN [self |-> IF imp.ret.exc = "none"
                      THEN cache_result(attr, imp.ret.val, s1)
                      ELSE s1,
             ret |-> imp.ret,
             fetched |-> ~s._user_settings.set,
             imports |-> imp.imports]

\* an attribute read obj.attr: __getattr__ runs only when the instance has
\* no attribute of that name
attribute_read(attr, s, conf) ==
    IF attr \in DOMAIN s.attrs
    THEN [self |-> s, ret |-> Return(s.attrs[attr]), hook |-> FALSE,
          fetched |-> FALSE, imports |-> <<>>]
    ELSE LET o == __getattr__(attr, s, conf)
         IN [self |-> o.self, ret |-> o.ret, hook |-> TRUE,
             fetched |-> o.fetched, imports |-> o.imports]

\* the end of reload without the delattr of _user_settings
keep_user_settings(s) == s._user_settings

\* the _user_settings attribute after the end of reload
drop_user_settings(s) == Absent

\* reload deleting one cached attribute per call instead of all of them
reload_one_name(s) ==
    IF s._cached_attrs \cap DOMAIN s.attrs = {}
    THEN {[self |-> [s EXCEPT !._cached_attrs = {},
                              !._user_settings = drop_user_settings(s)],
           ret |-> Return(None)]}
    ELSE {[self |-> [s EXCEPT !.attrs = [n \in (DOMAIN s.attrs) \ {a} |-> s.attrs[n]],
                              !._cached_attrs = @ \ {a},
                              !._user_settings = drop_user_settings(s)],
           ret |-> Return(None)] : a \in s._cached_attrs \cap DOMAIN s.attrs}

\* reload without the hasattr test before the delattr of _user_settings
reload_unguarded(s) ==
    IF s._user_settings.set
    THEN {[self |-> [s EXCEPT !.attrs = EmptyMap,
                              !._cached_attrs = {},
                              !._user_settings = drop_user_settings(s)],
           ret |-> Return(None)]}
    ELSE {[self |-> [s EXCEPT !.attrs = EmptyMap, !._cached_attrs = {}],
           ret |-> Raise("AttributeError", <<"_user_settings">>)]}

\* reload: the possible outcomes [self, ret]. delattr of a name that is
\* not an attribute raises AttributeError in the middle of the loop, after
\* the names the set's iteration order put first have been deleted
reload(s) ==
    LET have == s._cached_attrs \cap DOMAIN s.attrs
        missing == s._cached_attrs \ DOMAIN s.attrs
    IN IF missing = {}
       THEN {[self |-> [s EXCEPT !.attrs = EmptyMap,
                                 !._cached_attrs = {},
                                 !._user_settings = drop_user_settings(s)],
              ret |-> Return(None)]}
       ELSE {[self |-> [s EXCEPT !.attrs = [n \in (DOMAIN s.attrs) \ D |-> s.attrs[n]]],
              ret |-> Raise("AttributeError", <<m>>)] :
                  <<D, m>> \in (SUBSET have) \X missing}

\* the receiver reloading on every setting_changed signal
reload_task_settings_any(setting) == TRUE

\* reload_task_settings: whether the receiver calls task_settings.reload()
reload_task_settings(setting) == setting = ReloadSettingKey

----------------------------------------------------------------------------
(* The state machine *)

\* the record of an operation: cleared is the set of names an invalidation
\* un-memoized, after is the top-level key the host changed in the step
\* right before a notification ("" if that step was not a host change)
Op(op, name, ret, hook, fetched, imports, cleared, after) ==
    [op |-> op, name |-> name, ret |-> ret, hook |-> hook,
     fetched |-> fetched, imports |-> imports, cleared |-> cleared, after |-> after]

\* no read in progress
NoReader ==
    [pc |-> "idle", attr |-> "", val |-> None, ret |-> Return(None), reads |-> 0,
     hit |-> FALSE, late |-> ""]

\* no reload in progress
NoReloader ==
    [pc |-> "idle", used |-> 0, todo |-> {}, cur |-> "", ret |-> Return(None),
     reloads |-> 0]

\* no call of perform_import
NoCall == [val |-> None, name |-> "", done |-> FALSE, out |-> Return(None)]

Init ==
    /\ \E c \in Constructions :
          /\ self = TaskSettings(c.defaults, c.import_strings)
          /\ registered = c.module
    /\ settings \in [TopKeys -> Blocks]
    /\ lastOp = Op("init", "", Return(None), FALSE, FALSE, <<>>, {}, "")
    /\ reader = NoReader
    /\ reloader = NoReloader
    /\ call = NoCall

\* the top-level key changed by the step that led here, if any
JustChanged == IF lastOp.op = "host" THEN lastOp.name ELSE ""

\* the caller reads self.<attr>
Read(attr) ==
    LET o == attribute_read(attr, self, settings)
    IN /\ self' = o.self
       /\ lastOp' = Op("read", attr, o.ret, o.hook, o.fetched, o.imports, {}, "")
       /\ UNCHANGED <<registered, settings, aux>>

\* the caller calls self.reload()
Reload ==
    \E o \in reload(self) :
       /\ self' = o.self
       /\ lastOp' = Op("reload", "", o.ret, FALSE, FALSE, <<>>,
                     DOMAIN self.attrs \ DOMAIN o.self.attrs, "")
       /\ UNCHANGED <<registered, settings, aux>>

\* the host sends setting_changed(setting=...)
Notify(setting) ==
    /\ IF reload_task_settings(setting) /\ registered
       THEN \E o \in reload(self) :
               /\ self' = o.self
               /\ lastOp' = Op("notify", setting, o.ret, FALSE, FALSE, <<>>,
                                 DOMAIN self.attrs \ DOMAIN o.self.attrs, JustChanged)
       ELSE /\ self' = self
            /\ lastOp' = Op("notify", setting, Return(None), FALSE, FALSE, <<>>, {}, JustChanged)
    /\ UNCHANGED <<registered, settings, aux>>

\* the host application changes a top-level key of its configuration
HostSet(key, block) ==
    /\ settings[key] # block
    /\ settings' = [settings EXCEPT ![key] = block]
    /\ lastOp' = Op("host", key, Return(None), FALSE, FALSE, <<>>, {}, "")
    /\ UNCHANGED <<self, registered, aux>>

Next ==
    \/ \E attr \in ReadNames : Read(attr)
    \/ Reload
    \/ \E setting \in SignalNames : Notify(setting)
    \/ \E key \in TopKeys, block \in Blocks : HostSet(key, block)

Spec == Init /\ [][Next]_vars

TypeOK ==
    /\ registered \in BOOLEAN
    /\ settings \in [TopKeys -> Blocks]
    /\ self._cached_attrs \subseteq ReadNames
    /\ lastOp.op \in {"init", "read", "reload", "notify", "host"}

----------------------------------------------------------------------------
(* perform_import on its own *)

\* the longest sequence handed to perform_import
MaxItems == 2

Paths == Importable \cup {BadPath}

\* the sequences of path strings of at most MaxItems items
PathSeqs == UNION {[1..n -> {PyStr(p) : p \in Paths}] : n \in 0..MaxItems}

\* the values handed to perform_import
ImportValues ==
    {None, PyInt(10)} \cup {PyStr(p) : p \in Paths}
        \cup {PyList(q) : q \in PathSeqs} \cup {PyTuple(q) : q \in PathSeqs}

ImportInit ==
    /\ self = TaskSettings(DEFAULTS, IMPORT_STRINGS)
    /\ registered = TRUE
    /\ settings = [k \in TopKeys |-> Absent]
    /\ lastOp = Op("init", "", Return(None), FALSE, FALSE, <<>>, {}, "")
    /\ reader = NoReader
    /\ reloader = NoReloader
    /\ \E val \in ImportValues, name \in IMPORT_STRINGS :
          call = [val |-> val, name |-> name, done |-> FALSE, out |-> Return(None)]

\* perform_import(call.val, call.name) runs
PerformImport ==
    /\ ~call.done
    /\ call' = [call EXCEPT !.done = TRUE,
                            !.out = perform_import(call.val, call.name).ret]
    /\ UNCHANGED <<self, registered, settings, lastOp, reader, reloader>>

ImportNext == PerformImport

SpecImport == ImportInit /\ [][ImportNext]_vars

----------------------------------------------------------------------------
(* A read and a reload as two threads: one step per statement *)

\* the reads and the reloads the two threads perform
MaxReads == 3
MaxReloads == 2

\* the names the reading thread reads
ThreadReadNames == {"DEFAULT_TASK_RATE_LIMIT", "DEFAULT_QUOTE_ID", "DEFAULT_PARSER_CLASSES"}

\* the values the host gives the key user_settings reads
ThreadBlocks == {
    Absent,
    Present(("DEFAULT_TASK_RATE_LIMIT" :> PyInt(50)) @@
            ("DEFAULT_RENDERER_CLASSES" :> PyList(<<PyStr(OtherPath)>>))) }

\* delattr that ignores a name that is not an attribute
delattr_if_present(s, name) ==
    [self |-> [s EXCEPT !.attrs = [n \in (DOMAIN s.attrs) \ {name} |-> s.attrs[n]]],
     ret |-> Return(None)]

\* delattr(self, name) in the loop of reload
delattr(s, name) ==
    IF name \in DOMAIN s.attrs
    THEN [self |-> [s EXCEPT !.attrs = [n \in (DOMAIN s.attrs) \ {name} |-> s.attrs[n]]],
          ret |-> Return(None)]
    ELSE [self |-> s, ret |-> Raise("AttributeError", <<name>>)]

ThreadInit ==
    /\ self = TaskSettings(DEFAULTS, IMPORT_STRINGS)
    /\ registered = TRUE
    /\ settings \in {[k \in TopKeys |-> IF k = UserSettingsKey THEN b ELSE Absent] :
                        b \in ThreadBlocks}
    /\ lastOp = Op("init", "", Return(None), FALSE, FALSE, <<>>, {}, "")
    /\ reader = NoReader
    /\ reloader = NoReloader
    /\ call = NoCall

\* the read ends with outcome ret
ReadEnd(ret, hit) ==
    reader' = [reader EXCEPT !.pc = "idle", !.val = None, !.ret = ret,
                             !.reads = @ + 1, !.hit = hit]

\* self.<attr>: the instance attribute if there is one, else __getattr__
ReadBegin(attr) ==
    /\ reader.pc = "idle"
    /\ reader.reads < MaxReads
    /\ IF attr \in DOMAIN self.attrs
       THEN ReadEnd(Return(self.attrs[attr]), TRUE) /\ reader'.attr = attr
       ELSE reader' = [reader EXCEPT !.pc = "check", !.attr = attr]
    /\ UNCHANGED <<self, registered, settings, lastOp, reloader, call>>

\* lines 96-97
ReadCheck ==
    /\ reader.pc = "check"
    /\ IF is_invalid(reader.attr, self)
       THEN ReadEnd(Raise("AttributeError", <<reader.attr>>), FALSE)
       ELSE reader' = [reader EXCEPT !.pc = "has"]
    /\ UNCHANGED <<self, registered, settings, lastOp, reloader, call>>

\* line 91: hasattr(self, '_user_settings')
ReadHas ==
    /\ reader.pc = "has"
    /\ reader' = [reader EXCEPT !.pc = IF self._user_settings.set THEN "lookup" ELSE "assign"]
    /\ UNCHANGED <<self, registered, settings, lastOp, reloader, call>>

\* line 92: self._user_settings = getattr(settings, ..., {})
ReadAssign ==
    /\ reader.pc = "assign"
    /\ self' = [self EXCEPT !._user_settings = user_settings(Absent_user_settings(self), settings)]
    /\ reader' = [reader EXCEPT !.pc = "lookup"]
    /\ UNCHANGED <<registered, settings, lastOp, reloader, call>>

\* lines 93 and 101-108: return self._user_settings, which raises when a
\* reload has deleted it since line 91; then the lookup and the import
ReadLookup ==
    /\ reader.pc = "lookup"
    /\ IF ~self._user_settings.set
       THEN ReadEnd(Raise("AttributeError", <<"user_settings">>), FALSE)
       ELSE LET val == lookup(reader.attr, self, self._user_settings)
                imp == IF reader.attr \in self.import_strings
                       THEN perform_import(val, reader.attr).ret
                       ELSE Return(val)
            IN IF imp.exc = "none"
               THEN reader' = [reader EXCEPT !.pc = "add", !.val = imp.val]
               ELSE ReadEnd(imp, FALSE)
    /\ UNCHANGED <<self, registered, settings, lastOp, reloader, call>>

\* line 111: self._cached_attrs.add(attr)
ReadAdd ==
    /\ reader.pc = "add"
    /\ self' = [self EXCEPT !._cached_attrs = @ \cup {reader.attr}]
    /\ reader' = [reader EXCEPT !.pc = "setattr"]
    /\ UNCHANGED <<registered, settings, lastOp, reloader, call>>

\* lines 112-113: setattr(self, attr, val); return val
ReadSetattr ==
    /\ reader.pc = "setattr"
    /\ self' = [cache_result(reader.attr, reader.val, self)
                   EXCEPT !._cached_attrs = self._cached_attrs]
    /\ ReadEnd(Return(reader.val), FALSE)
    /\ UNCHANGED <<registered, settings, lastOp, reloader, call>>

\* the reload ends with outcome ret; a read that has its value in hand and
\* has not stored it is marked as late when the reload returned normally
ReloadEnd(ret) ==
    /\ reloader' = [reloader EXCEPT !.pc = "idle", !.used = 0, !.todo = {}, !.cur = "",
                                    !.ret = ret, !.reloads = @ + 1]
    /\ IF ret.exc = "none" /\ reader.pc \in {"add", "setattr"}
       THEN reader' = [reader EXCEPT !.late = reader.attr]
       ELSE reader' = reader

\* line 116: iter(self._cached_attrs), from reload() or reload_task_settings
ReloadBegin ==
    /\ reloader.pc = "idle"
    /\ reloader.reloads < MaxReloads
    /\ reloader' = [reloader EXCEPT !.pc = "next",
                                    !.used = Cardinality(self._cached_attrs),
                                    !.todo = self._cached_attrs]
    /\ reader' = [reader EXCEPT !.late = ""]
    /\ UNCHANGED <<self, registered, settings, lastOp, call>>

\* line 116: next() of the set iterator, which raises RuntimeError when
\* the size of the set has changed since the iterator was made
ReloadNext ==
    /\ reloader.pc = "next"
    /\ IF Cardinality(self._cached_attrs) # reloader.used
       THEN ReloadEnd(Raise("RuntimeError", <<>>))
       ELSE IF reloader.todo = {}
       THEN reloader' = [reloader EXCEPT !.pc = "clear"] /\ reader' = reader
       ELSE \E a \in reloader.todo :
               /\ reloader' = [reloader EXCEPT !.pc = "del", !.cur = a, !.todo = @ \ {a}]
               /\ reader' = reader
    /\ UNCHANGED <<self, registered, settings, lastOp, call>>

\* line 117: delattr(self, attr)
ReloadDel ==
    /\ reloader.pc = "del"
    /\ LET o == delattr(self, reloader.cur)
       IN /\ self' = o.self
          /\ IF o.ret.exc = "none"
             THEN reloader' = [reloader EXCEPT !.pc = "next", !.cur = ""] /\ reader' = reader
             ELSE ReloadEnd(o.ret)
    /\ UNCHANGED <<registered, settings, lastOp, call>>

\* line 118: self._cached_attrs.clear()
ReloadClear ==
    /\ reloader.pc = "clear"
    /\ self' = [self EXCEPT !._cached_attrs = {}]
    /\ reloader' = [reloader EXCEPT !.pc = "has"]
    /\ UNCHANGED <<registered, settings, lastOp, reader, call>>

\* line 119: hasattr(self, '_user_settings')
ReloadHas ==
    /\ reloader.pc = "has"
    /\ IF self._user_settings.set
       THEN reloader' = [reloader EXCEPT !.pc = "delus"] /\ reader' = reader
       ELSE ReloadEnd(Return(None))
    /\ UNCHANGED <<self, registered, settings, lastOp, call>>

\* line 120: delattr(self, '_user_settings')
ReloadDelUs ==
    /\ reloader.pc = "delus"
    /\ IF self._user_settings.set
       THEN /\ self' = [self EXCEPT !._user_settings = drop_user_settings(self)]
            /\ ReloadEnd(Return(None))
       ELSE /\ self' = self
            /\ ReloadEnd(Raise("AttributeError", <<"_user_settings">>))
    /\ UNCHANGED <<registered, settings, lastOp, call>>

\* the host application changes the key user_settings reads
ThreadHostSet(block) ==
    /\ settings[UserSettingsKey] # block
    /\ settings' = [settings EXCEPT ![UserSettingsKey] = block]
    /\ UNCHANGED <<self, registered, lastOp, reader, reloader, call>>

ThreadNext ==
    \/ \E attr \in ThreadReadNames : ReadBegin(attr)
    \/ ReadCheck
    \/ ReadHas
    \/ ReadAssign
    \/ ReadLookup
    \/ ReadAdd
    \/ ReadSetattr
    \/ ReloadBegin
    \/ ReloadNext
    \/ ReloadDel
    \/ ReloadClear
    \/ ReloadHas
    \/ ReloadDelUs
    \/ \E block \in ThreadBlocks : ThreadHostSet(block)

SpecThreads == ThreadInit /\ [][ThreadNext]_vars

----------------------------------------------------------------------------
(* Properties *)

\* the step is a read of attribute K
ReadStep(K) == lastOp'.op = "read" /\ lastOp'.name = K

\* the step ran TaskSettings.reload
InvalidationStep ==
    \/ lastOp'.op = "reload"
    \/ lastOp'.op = "notify" /\ lastOp'.name = ReloadSettingKey /\ registered

\* the state is the one an invalidation left
JustInvalidated ==
    \/ lastOp.op = "reload"
    \/ lastOp.op = "notify" /\ lastOp.name = ReloadSettingKey /\ registered

\* what a read of K owes the caller when K resolves to val
Resolved(val, K) ==
    IF K \in self.import_strings THEN perform_import(val, K).ret ELSE Return(val)

\* the library's namespace block of the host configuration holds K
Overridden(K) ==
    /\ settings[DocumentedNamespace].set
    /\ K \in DOMAIN settings[DocumentedNamespace].val

\* C1: a read of a key K that is not memoized and that the library's
\* namespace block of the host configuration overrides returns the override
\* (import-resolved for an import-string key), the first read after
\* construction included.
C1_OverrideReturned ==
    [][\A K \in DOMAIN self.defaults :
          (K \notin DOMAIN self.attrs /\ Overridden(K) /\ ReadStep(K))
             => lastOp'.ret = Resolved(settings[DocumentedNamespace].val[K], K)]_vars

\* C2: a read of a key K that is not memoized and that the library's
\* namespace block does not override (the block may be absent altogether)
\* returns the default of K, import-resolved for an import-string key.
C2_DefaultReturned ==
    [][\A K \in DOMAIN self.defaults :
          (K \notin DOMAIN self.attrs /\ ~Overridden(K) /\ ReadStep(K))
             => lastOp'.ret = Resolved(self.defaults[K], K)]_vars

\* C3: in every state a read of a name that is not a key of the defaults
\* has raised the unknown-setting error naming it, whatever the overrides hold.
C3_UnknownSettingFails ==
    (lastOp.op = "read" /\ lastOp.name \notin DOMAIN self.defaults)
       => lastOp.ret = Raise("AttributeError", <<lastOp.name>>)

\* an unknown name that the cached overrides hold has just been read
C3_Witness ==
    /\ lastOp.op = "read"
    /\ lastOp.name \notin DOMAIN self.defaults
    /\ self._user_settings.set
    /\ lastOp.name \in DOMAIN self._user_settings.val
    /\ self._cached_attrs # {}

\* C4: a value a read returned is memoized under its name; until the next
\* invalidation it stays memoized unchanged, and a read of a memoized name
\* returns that value without running __getattr__, reading the host
\* configuration or importing, whatever the host configuration has become.
C4_MemoizedUntilInvalidation ==
    [][/\ (lastOp'.op = "read" /\ lastOp'.ret.exc = "none")
             => /\ lastOp'.name \in DOMAIN self'.attrs
                /\ self'.attrs[lastOp'.name] = lastOp'.ret.val
       /\ \A K \in DOMAIN self.attrs :
             ~InvalidationStep
                => /\ K \in DOMAIN self'.attrs
                   /\ self'.attrs[K] = self.attrs[K]
                   /\ ReadStep(K)
                         => /\ lastOp'.ret = Return(self.attrs[K])
                            /\ ~lastOp'.hook
                            /\ ~lastOp'.fetched
                            /\ lastOp'.imports = <<>>
                            /\ self' = self]_vars

\* a memoized name has been read again after the host configuration moved
\* away from the value it was resolved from
C4_Witness ==
    /\ lastOp.op = "read"
    /\ ~lastOp.hook
    /\ lastOp.name \in DOMAIN self._user_settings.val
    /\ lastOp.ret = Resolved(self._user_settings.val[lastOp.name], lastOp.name)
    /\ settings[UserSettingsKey] # self._user_settings

\* C5: the read of K that follows an invalidation which un-memoized K
\* returns the override the library's namespace block holds for K at the
\* time of the read, or the default if it holds none.
C5_RecomputedFromHost ==
    [][\A K \in DOMAIN self.defaults :
          (JustInvalidated /\ K \in lastOp.cleared /\ ReadStep(K))
             => lastOp'.ret =
                   Resolved(IF Overridden(K)
                            THEN settings[DocumentedNamespace].val[K]
                            ELSE self.defaults[K], K)]_vars

\* C6: on task_settings, after the host has changed the library's namespace
\* block and sent the notification naming it, the read of a key K that the
\* block overrides returns that override.
C6_NotificationKeyIsReadKey ==
    [][\A K \in DOMAIN self.defaults :
          (/\ registered
           /\ lastOp.op = "notify"
           /\ lastOp.name = DocumentedNamespace
           /\ lastOp.after = DocumentedNamespace
           /\ Overridden(K)
           /\ ReadStep(K))
             => lastOp'.ret = Resolved(settings[DocumentedNamespace].val[K], K)]_vars

\* C7: a notification naming a key other than the library's namespace key
\* leaves the accessor as it was, and a read of a memoized key right after
\* it returns the memoized value.
C7_OtherNotificationIgnored ==
    [][/\ (lastOp'.op = "notify" /\ lastOp'.name # DocumentedNamespace)
             => self' = self
       /\ \A K \in DOMAIN self.attrs :
             (lastOp.op = "notify" /\ lastOp.name # DocumentedNamespace /\ ReadStep(K))
                => lastOp'.ret = Return(self.attrs[K])]_vars

\* task_settings holds memoized values and an override snapshot, and the
\* host has just changed a key and named it in a notification that is not
\* the library's namespace key
C7_Witness ==
    /\ registered
    /\ lastOp.op = "notify"
    /\ lastOp.name # DocumentedNamespace
    /\ lastOp.after = lastOp.name
    /\ self._cached_attrs # {}
    /\ self._user_settings.set
    /\ self._user_settings # settings[UserSettingsKey]

\* C8: an invalidation returns normally and leaves nothing memoized, the
\* cached-attributes set empty and the override snapshot discarded; and no
\* state shows a part of that: the snapshot is never gone while something
\* is memoized, and the cached-attributes set never differs from the
\* memoized names.
C8_ReloadClearsAll ==
    /\ JustInvalidated
          => /\ lastOp.ret = Return(None)
             /\ self.attrs = EmptyMap
             /\ self._cached_attrs = {}
             /\ ~self._user_settings.set
    /\ ~self._user_settings.set => self.attrs = EmptyMap
    /\ self._cached_attrs = DOMAIN self.attrs

\* reload has just un-memoized two names
C8_Witness ==
    /\ lastOp.op = "reload"
    /\ Cardinality(lastOp.cleared) >= 2

\* C9: on task_settings a read of a setting whose value is an importable
\* dotted path returns the class the path names, not the string.
C9_SingletonReturnsClass ==
    \A K \in DOMAIN self.defaults :
       (/\ registered
        /\ lastOp.op = "read"
        /\ lastOp.name = K
        /\ lookup(K, self, self._user_settings).t = "str"
        /\ lookup(K, self, self._user_settings).v \in Importable)
          => lastOp.ret = Return(PyClass(lookup(K, self, self._user_settings).v))

\* the first path of val that cannot be imported ("" if there is none)
OffendingPath(val) ==
    IF val.t = "str"
    THEN IF val.v \in Importable THEN "" ELSE val.v
    ELSE IF val.t \in {"list", "tuple"}
    THEN LET bad == {i \in 1..Len(val.v) : val.v[i].v \notin Importable}
         IN IF bad = {} THEN ""
            ELSE val.v[CHOOSE i \in bad : \A j \in bad : i <= j].v
    ELSE ""

\* C10: a read of an import-string key K that is not memoized and whose
\* value holds a path that cannot be imported raises the import error
\* naming that path and K and memoizes nothing; the read of K that follows
\* a failed one runs the resolution again.
C10_ImportErrorNotMemoized ==
    [][\A K \in DOMAIN self.defaults \cap self.import_strings :
          /\ (/\ K \notin DOMAIN self.attrs
              /\ OffendingPath(lookup(K, self, user_settings(self, settings))) # ""
              /\ ReadStep(K))
                => /\ lastOp'.ret =
                         Raise("ImportError",
                               <<OffendingPath(lookup(K, self, user_settings(self, settings))), K>>)
                   /\ K \notin DOMAIN self'.attrs
                   /\ K \notin self'._cached_attrs
                   /\ self'.attrs = self.attrs
                   /\ self'._cached_attrs = self._cached_attrs
          /\ (lastOp.op = "read" /\ lastOp.name = K /\ lastOp.ret.exc = "ImportError"
              /\ ReadStep(K))
                => /\ lastOp'.hook
                   /\ lastOp'.imports # <<>>
                   /\ lastOp'.ret = lastOp.ret]_vars

\* the second item of a sequence value has failed to import, and the read
\* is a repeat of a read that failed the same way
C10_Witness ==
    /\ lastOp.op = "read"
    /\ lastOp.ret.exc = "ImportError"
    /\ lastOp.ret.msg = <<BadPath, lastOp.name>>
    /\ Len(lastOp.imports) = 2
    /\ ~lastOp.fetched
    /\ lastOp.name \notin self._cached_attrs

\* every path of a sequence of path strings can be imported
AllImportable(items) == \A i \in 1..Len(items) : items[i].v \in Importable

\* C11: perform_import leaves None as None, turns a string into the object
\* its path names, and turns a list or a tuple of strings into the sequence
\* of the objects their paths name, of the same length and in the same order.
C11_PerformImportMapping ==
    call.done =>
       /\ call.val.t = "none" => call.out = Return(None)
       /\ (call.val.t = "str" /\ call.val.v \in Importable)
             => call.out = Return(PyClass(call.val.v))
       /\ (call.val.t \in {"list", "tuple"} /\ AllImportable(call.val.v))
             => /\ call.out.exc = "none"
                /\ call.out.val.t = "list"
                /\ Len(call.out.val.v) = Len(call.val.v)
                /\ \A i \in 1..Len(call.val.v) :
                      call.out.val.v[i] = PyClass(call.val.v[i].v)

\* a tuple of two different paths has been resolved
C11_Witness ==
    /\ call.done
    /\ call.val.t = "tuple"
    /\ Len(call.val.v) = 2
    /\ call.val.v[1] # call.val.v[2]
    /\ AllImportable(call.val.v)
    /\ call.out.exc = "none"

\* C12: a step un-memoizes a name only if it is an invalidation, and an
\* invalidation un-memoizes every memoized name at once; reads, host
\* changes and notifications for other keys un-memoize nothing.
C12_OnlyGlobalInvalidation ==
    [][(\E K \in DOMAIN self.attrs : K \notin DOMAIN self'.attrs)
          => /\ InvalidationStep
             /\ self'.attrs = EmptyMap
             /\ lastOp'.cleared = DOMAIN self.attrs]_vars

\* a notification has just un-memoized two names of task_settings at once
C12_Witness ==
    /\ registered
    /\ lastOp.op = "notify"
    /\ Cardinality(lastOp.cleared) >= 2
    /\ self.attrs = EmptyMap

\* the block user_settings reads from the host configuration
HostOverrides ==
    Present(IF settings[UserSettingsKey].set THEN settings[UserSettingsKey].val ELSE EmptyMap)

C14_ReloadSafeAndIdempotent ==
    [][/\ lastOp'.op = "reload" => lastOp'.ret = Return(None)
       /\ (lastOp.op = "reload" /\ lastOp'.op = "reload")
             => /\ self' = self
                /\ lastOp'.cleared = {}
       /\ (lastOp.op = "init" /\ lastOp'.op = "reload")
             => /\ self'.attrs = EmptyMap
                /\ self'._cached_attrs = {}
                /\ ~self'._user_settings.set]_vars

\* reload has returned from a state in which nothing was memoized
C14_Witness ==
    /\ lastOp.op = "reload"
    /\ lastOp.ret = Return(None)
    /\ lastOp.cleared = {}
    /\ ~self._user_settings.set

C17_CachedAttrsAreMemoized ==
    /\ self._cached_attrs = DOMAIN self.attrs
    /\ self._cached_attrs \subseteq DOMAIN self.defaults

\* two names are memoized and a read of a third has failed to import
C17_Witness ==
    /\ Cardinality(self._cached_attrs) >= 2
    /\ lastOp.op = "read"
    /\ lastOp.ret.exc = "ImportError"

\* C19: a read of a name that is not a key of the defaults leaves the
\* instance as it was (cached-attributes set, memoized values, override
\* snapshot held or not) and does not read the host configuration.
C19_UnknownReadChangesNothing ==
    [][\A n \in ReadNames :
          (ReadStep(n) /\ n \notin DOMAIN self.defaults)
             => /\ self' = self
                /\ ~lastOp'.fetched
                /\ lastOp'.imports = <<>>]_vars

\* an unknown name has been read while the snapshot was discarded and the
\* host configuration holds overrides, and the snapshot is still discarded
C19_Witness ==
    /\ lastOp.op = "read"
    /\ lastOp.ret.exc = "AttributeError"
    /\ ~self._user_settings.set
    /\ settings[UserSettingsKey].set

\* the step is the last one of a read that stores its value
StoreStep == reader.pc = "setattr" /\ reader'.pc = "idle"

\* the step is one of the reloading thread
ReloaderStep == reloader' # reloader

\* C15: in the interleaved runs the read stores the value it computed
\* earlier, also when a reload has completed in between; from then on a
\* read of that name returns the stored value, and only a step of a reload
\* un-memoizes it. (The witness is the run the claim says exists.)
C15_LateStoreSurvivesReload ==
    [][/\ StoreStep
             => /\ reader.attr \in DOMAIN self'.attrs
                /\ self'.attrs[reader.attr] = reader.val
                /\ reader'.ret = Return(reader.val)
       /\ \A K \in DOMAIN self.attrs :
             /\ ~ReloaderStep
                   => K \in DOMAIN self'.attrs /\ self'.attrs[K] = self.attrs[K]
             /\ (reader.pc = "idle" /\ reader'.pc = "idle"
                 /\ reader'.reads = reader.reads + 1 /\ reader'.attr = K)
                   => reader'.ret = Return(self.attrs[K]) /\ reader'.hit]_vars

\* a reload has completed between the computation of K's value and its
\* store, and a later read of K has returned that value, an override the
\* host configuration held before the reload and holds no more
C15_Witness ==
    /\ reader.late # ""
    /\ reader.pc = "idle"
    /\ reader.attr = reader.late
    /\ reader.hit
    /\ reader.attr \in DOMAIN self.attrs
    /\ reader.attr \in self._cached_attrs
    /\ reader.ret = Return(self.attrs[reader.attr])
    /\ reloader.pc = "idle"
    /\ reloader.reloads >= 1
    /\ reloader.ret = Return(None)
    /\ self.attrs[reader.attr] # lookup(reader.attr, self, HostOverrides)
    /\ self.attrs[reader.attr] # self.defaults[reader.attr]

\* the step ends a reload with an exception
ReloadFailStep ==
    reloader.pc # "idle" /\ reloader'.pc = "idle" /\ reloader'.ret.exc # "none"

\* the step ends a reload normally
ReloadDoneStep ==
    reloader.pc # "idle" /\ reloader'.pc = "idle" /\ reloader'.ret.exc = "none"

\* C18 as stated: in the interleaved runs no reload ends with an exception.
C18_ReloadNeverFails == reloader.ret.exc = "none"

\* C18 as amended: a reload whose loop reaches a name that is recorded in
\* the cached-attributes set but is not an attribute raises AttributeError,
\* and one whose loop finds the set grown raises RuntimeError; a reload
\* fails in no other way, a failed reload leaves the cached-attributes set
\* and the override snapshot as they were, and a reload that does not fail
\* empties the set and ends with the snapshot discarded.
C18_ReloadFailsOnlyInRace ==
    [][/\ (reloader.pc = "del" /\ ReloaderStep /\ reloader.cur \notin DOMAIN self.attrs)
             => /\ reloader'.pc = "idle"
                /\ reloader'.ret = Raise("AttributeError", <<reloader.cur>>)
       /\ ReloadFailStep
             => /\ \/ /\ reloader'.ret = Raise("AttributeError", <<reloader.cur>>)
                      /\ reloader.pc = "del"
                      /\ reloader.cur \in self._cached_attrs
                      /\ reloader.cur \notin DOMAIN self.attrs
                   \/ /\ reloader'.ret.exc = "RuntimeError"
                      /\ reloader.pc = "next"
                      /\ Cardinality(self._cached_attrs) > reloader.used
                /\ self' = self
                /\ self._cached_attrs # {}
       /\ (reloader.pc = "clear" /\ ReloaderStep) => self'._cached_attrs = {}
       /\ ReloadDoneStep => ~self'._user_settings.set]_vars

\* a reload has failed on the name a read has recorded and not yet stored,
\* and the set and the snapshot are still in place
C18_Witness ==
    /\ reloader.pc = "idle"
    /\ reader.pc = "setattr"
    /\ reloader.ret = Raise("AttributeError", <<reader.attr>>)
    /\ reader.attr \in self._cached_attrs
    /\ reader.attr \notin DOMAIN self.attrs
    /\ self._user_settings.set

====
